---- MODULE Spec2Model ----
(***************************************************************************)
(* Predictive-maintenance ingestion pipeline.                              *)
(*                                                                         *)
(*   app/main.py             main, signal_handler, data_processing_loop    *)
(*   app/sensor_connector.py ArduinoConnector, generate_mock_data          *)
(*   app/sensor_data.py      process_sensor_data, store_data               *)
(*                                                                         *)
(* Spec       the running process: main thread, signal handler, consumer   *)
(*            thread and one producer thread (device reader or mock).      *)
(* SpecScorer process_sensor_data as a function of one raw sample.         *)
(* SpecSink   store_data called with scored records, I/O failures included.*)
(* SpecMonitor   ml_model_monitor.py: ModelMonitor on a file that changes. *)
(* SpecConnector ArduinoConnector started and stopped by a caller.         *)
(*                                                                         *)
(* Samples are numbered 1, 2, ... in the order the producer puts them on   *)
(* data_queue.  Sensor values are integers in scaled units: temperature    *)
(* and rpm in units, vibration and pressure in tenths, probabilities in    *)
(* hundredths.                                                             *)
(***************************************************************************)
EXTENDS Integers, Sequences, FiniteSets, TLC

VARIABLES
    m_pc,          \* main thread: position in main()
    model,         \* local `model` of main(): "unloaded" | "loaded" | "failed"
    use_mock,      \* local `use_mock` of main(): "unset" | "true" | "false"
    sig_pc,        \* signal_handler: position ("none" = not entered)
    proc_exited,   \* sys.exit(0) has run: the daemon threads are gone
    stop_event,    \* threading.Event stop_event
    csv_file,      \* global csv_file: "none" | "open" | "closed"
    data_queue,    \* queue.Queue(): sample ids, head first
    cons_pc,       \* consumer thread: position in data_processing_loop
    cons_data,     \* local `data` of data_processing_loop (0 = unset)
    handed,        \* samples process_sensor_data was called with, in order
    scored,        \* samples process_sensor_data returned a record for
    stored,        \* samples store_data wrote, in order
    cons_errors,   \* samples whose processing ended in the except branch
    producer,      \* "none" | "arduino" | "mock": the sensor thread started
    rd_pc,         \* reader thread: position in read_data
    rd_exc,        \* exception that ended the reader thread ("none")
    rd_last,       \* last connection event of the reader
    running,       \* ArduinoConnector.running
    connected,     \* ArduinoConnector.connected
    serial_conn,   \* ArduinoConnector.serial_conn: "none" | "open" | "closed"
    produced,      \* number of samples put on data_queue so far
    at_stop,       \* value of produced when stop_event.set() ran (-1 before)
    rd_faulted,    \* a read fault or connect failure since the last put
    after_fault,   \* samples put after a fault/reconnect cycle
    rd_frame,      \* what the reader's last read of the port returned
    stop_pc,       \* caller of ArduinoConnector.stop(): position ("none")
    raw,           \* scorer: the raw sample given to process_sensor_data
    processed,     \* scorer: the record it returned
    sink_calls,    \* sink: the store_data calls so far: record and result
    sensor_file,   \* sink: <machine_id>_sensor_data.csv, rows per machine
    alerts_file,   \* sink: <machine_id>_alerts.csv, rows per machine
    latest_alert,  \* sink: <machine_id>_latest_alert.json per machine
    mon_pc,        \* monitor: "new" | "check" | "sleep" (run_monitor_loop)
    now,           \* monitor: wall clock, in seconds
    csv,           \* monitor: content of the file at csv_path
    last_hash,     \* ModelMonitor.last_hash
    backups,       \* monitor: files of backup_dir, timestamp -> content
    reports,       \* monitor: ChangeReports handed to _save_metrics, in order
    alerts,        \* monitor: _send_alert calls, in order
    last_snapshot, \* monitor: content of the newest snapshot written so far
    file_at_last,  \* monitor: content of the file at the previous check
    modified,      \* monitor: the file was written since construction
    checks         \* monitor: check_for_changes calls so far

vars == << m_pc, model, use_mock, sig_pc, proc_exited, stop_event, csv_file, data_queue,
           cons_pc, cons_data, handed, scored, stored, cons_errors,
           producer, rd_pc, rd_exc, rd_last, running, connected, serial_conn,
           produced, at_stop, rd_faulted, after_fault, rd_frame, stop_pc,
           raw, processed,
           sink_calls, sensor_file, alerts_file, latest_alert,
           mon_pc, now, csv, last_hash, backups, reports, alerts,
           last_snapshot, file_at_last, modified, checks >>

mainVars == << m_pc, model, use_mock >>
sigVars == << sig_pc, proc_exited, stop_event, at_stop >>
consVars == << cons_pc, cons_data, handed, scored, stored, cons_errors >>
readerVars == << rd_pc, rd_exc, rd_last, running, connected, serial_conn,
                 rd_faulted, rd_frame, stop_pc >>
scorerVars == << raw, processed >>
sinkVars == << sink_calls, sensor_file, alerts_file, latest_alert >>
monitorVars == << mon_pc, now, csv, last_hash, backups, reports, alerts,
                  last_snapshot, file_at_last, modified, checks >>

----------------------------------------------------------------------------
\* Bounds of the model.

\* Samples the producer may put on data_queue in one run.
MaxSamples == 3

\* store_data calls in one run of the sink.
MaxCalls == 3

\* Seconds of wall-clock time in one run of the monitor.
MaxTime == 3

----------------------------------------------------------------------------
\* Helpers.

Range(s) == { s[i] : i \in 1..Len(s) }

\* s is strictly increasing: the samples appear in production order, once each.
InOrder(s) == \A i, j \in 1..Len(s) : i < j => s[i] < s[j]

NoSample == [missing |-> TRUE]
NoRecord == [missing |-> TRUE]

----------------------------------------------------------------------------
\* Calls across modules.  A Python call binds its positional arguments to the
\* callee's parameters before the body runs; a count mismatch raises TypeError
\* in the caller.

\* def process_sensor_data(data)
ProcessParams == 1
\* process_sensor_data(data, model)
ProcessArgs == 2
\* def store_data(processed_data)
StoreParams == 1
\* store_data(processed_data, csv_file)
StoreArgs == 2

ProcessCallRaises == ProcessArgs # ProcessParams
StoreCallRaises == StoreArgs # StoreParams

\* Keys of the record process_sensor_data returns that data_processing_loop
\* reads afterwards: processed_data["prediction_label"] is not among the keys
\* built in sensor_data.py, so the subscript raises KeyError.
PrintRaises == TRUE

----------------------------------------------------------------------------
\* sensor_data.py: process_sensor_data.

FieldNames == {"temperature", "vibration", "pressure", "rpm"}

\* float(data.get(key, 0))
Get(data, key) == IF key \in DOMAIN data THEN data[key] ELSE 0

\* Normal operating ranges (low, high); vibration and pressure in tenths.
temp_normal == << 50, 90 >>
vibration_normal == << 1, 50 >>
pressure_normal == << 8, 12 >>
rpm_normal == << 1000, 3000 >>

\* value < normal[0] or value > normal[1]
AnomalyAtBounds(value, normal) == value <= normal[1] \/ value >= normal[2]
Anomaly(value, normal) == value < normal[1] \/ value > normal[2]

\* Increments of failure_probability, in hundredths, and its cap.
TempWeight == 30
VibrationWeight == 40
PressureWeight == 20
RpmWeight == 10
ProbabilityCap == 95

Min(a, b) == IF a < b THEN a ELSE b

\* min(failure_probability, 0.95)
CapNone(p) == p
Cap(p) == Min(p, ProbabilityCap)

\* failure_type = X if failure_type == "Unknown" else failure_type
KeepTypeOverwrite(current, new) == new
KeepType(current, new) == IF current = "Unknown" THEN new ELSE current

\* The four rule blocks, run in source order on (probability, type).
FailureRules(data) ==
    LET temperature == Get(data, "temperature")
        vibration == Get(data, "vibration")
        pressure == Get(data, "pressure")
        rpm == Get(data, "rpm")
        s0 == [p |-> 0, t |-> "Unknown"]
        s1 == IF Anomaly(temperature, temp_normal) /\ temperature > temp_normal[2]
              THEN [p |-> s0.p + TempWeight, t |-> "Overheating"]
              ELSE s0
        s2 == IF Anomaly(vibration, vibration_normal) /\ vibration > vibration_normal[2]
              THEN [p |-> s1.p + VibrationWeight, t |-> KeepType(s1.t, "Bearing Failure")]
              ELSE s1
        s3 == IF Anomaly(pressure, pressure_normal)
              THEN [p |-> s2.p + PressureWeight, t |-> KeepType(s2.t, "Pressure Issue")]
              ELSE s2
        s4 == IF Anomaly(rpm, rpm_normal)
              THEN [p |-> s3.p + RpmWeight, t |-> KeepType(s3.t, "Motor Issue")]
              ELSE s3
    IN  s4

\* if anomaly_detected: ... processed_data['failure_probability'] = ...
AddsFailureFieldsAlways(anomaly_detected) == TRUE
AddsFailureFields(anomaly_detected) == anomaly_detected

\* The record process_sensor_data returns.  The timestamp and the two ratio
\* features are left out: no flag and no probability is computed from them.
process_sensor_data(data) ==
    LET temperature == Get(data, "temperature")
        vibration == Get(data, "vibration")
        pressure == Get(data, "pressure")
        rpm == Get(data, "rpm")
        temp_anomaly == Anomaly(temperature, temp_normal)
        vibration_anomaly == Anomaly(vibration, vibration_normal)
        pressure_anomaly == Anomaly(pressure, pressure_normal)
        rpm_anomaly == Anomaly(rpm, rpm_normal)
        anomaly_detected ==
            temp_anomaly \/ vibration_anomaly \/ pressure_anomaly \/ rpm_anomaly
        base == [temperature |-> temperature,
                 vibration |-> vibration,
                 pressure |-> pressure,
                 rpm |-> rpm,
                 temp_anomaly |-> temp_anomaly,
                 vibration_anomaly |-> vibration_anomaly,
                 pressure_anomaly |-> pressure_anomaly,
                 rpm_anomaly |-> rpm_anomaly,
                 anomaly_detected |-> anomaly_detected]
        rules == FailureRules(data)
    IN  IF AddsFailureFields(anomaly_detected)
        THEN [k \in DOMAIN base \cup {"failure_probability", "failure_type"} |->
                 IF k = "failure_probability" THEN Cap(rules.p)
                 ELSE IF k = "failure_type" THEN rules.t
                 ELSE base[k]]
        ELSE base

\* Raw samples given to the scorer: every field below, at and above each
\* bound of its normal range and inside it, or absent from the dict.
TempValues == {49, 50, 70, 90, 91}
VibrationValues == {0, 1, 20, 50, 51}
PressureValues == {7, 8, 10, 12, 13}
RpmValues == {999, 1000, 2000, 3000, 3001}

FullSamples ==
    [temperature : TempValues, vibration : VibrationValues,
     pressure : PressureValues, rpm : RpmValues]

Drop(f, K) == [k \in FieldNames \ K |-> f[k]]

RawSamples == { Drop(f, K) : f \in FullSamples, K \in SUBSET FieldNames }

----------------------------------------------------------------------------
\* Initial state: main() has registered signal_handler (main.py:88-89); no
\* thread is started, no file is open, the ArduinoConnector is not built.

PipelineInit ==
    /\ m_pc = "load_model"
    /\ model = "unloaded"
    /\ use_mock = "unset"
    /\ sig_pc = "none"
    /\ proc_exited = FALSE
    /\ stop_event = FALSE
    /\ csv_file = "none"
    /\ data_queue = << >>
    /\ cons_pc = "not_started"
    /\ cons_data = 0
    /\ handed = << >>
    /\ scored = << >>
    /\ stored = << >>
    /\ cons_errors = << >>
    /\ producer = "none"
    /\ rd_pc = "not_started"
    /\ rd_exc = "none"
    /\ rd_last = "none"
    /\ running = FALSE
    /\ connected = FALSE
    /\ serial_conn = "none"
    /\ produced = 0
    /\ at_stop = -1
    /\ rd_faulted = FALSE
    /\ after_fault = {}
    /\ rd_frame = "none"
    /\ stop_pc = "none"

\* The data directory holds no file of any machine yet.
Machines == {"m1", "m2"}
NoFile == [state |-> "absent"]
PartialFile == [state |-> "partial"]

SinkInit ==
    /\ sink_calls = << >>
    /\ sensor_file = [m \in Machines |-> << >>]
    /\ alerts_file = [m \in Machines |-> << >>]
    /\ latest_alert = [m \in Machines |-> NoFile]

\* Contents of the monitored file: a CSV of so many rows, bytes pandas cannot
\* parse (an empty file, say), or no file at all.
RowCounts == {500, 1500, 1600}
Garbled == [state |-> "garbled"]
Missing == [state |-> "missing"]
Tables == { [rows |-> n] : n \in RowCounts }
Contents == Tables \cup {Garbled, Missing}

None == [state |-> "none"]
NoSnapshot == [state |-> "no snapshot"]

\* The monitor is not constructed; backup_dir is empty.
MonitorIdle ==
    /\ mon_pc = "new"
    /\ now = 1
    /\ last_hash = None
    /\ backups = << >>
    /\ reports = << >>
    /\ alerts = << >>
    /\ last_snapshot = NoSnapshot
    /\ file_at_last = Missing
    /\ modified = FALSE
    /\ checks = 0

Init ==
    /\ PipelineInit
    /\ raw = NoSample
    /\ processed = NoRecord
    /\ SinkInit
    /\ MonitorIdle
    /\ csv = Missing

\* The process is alive: main() has not returned or died, sys.exit has not run.
Alive == ~proc_exited /\ m_pc \notin {"returned", "aborted"}

\* The main thread runs main() itself: the signal handler is not on its stack.
MainRuns == Alive /\ sig_pc = "none"

----------------------------------------------------------------------------
\* main.py: main().

\* except Exception as e: print(...); return
OnLoadModelErrorGoOn == "setup_csv"
OnLoadModelError == "returned"

\* model = load_model(...); on any exception: print and return.
MainLoadModel ==
    /\ MainRuns
    /\ m_pc = "load_model"
    /\ \E ok \in BOOLEAN :
          IF ok
          THEN model' = "loaded" /\ m_pc' = "setup_csv"
          ELSE model' = "failed" /\ m_pc' = OnLoadModelError
    /\ UNCHANGED << use_mock, sigVars, csv_file, data_queue, consVars, producer,
                    readerVars, produced, after_fault, scorerVars, sinkVars, monitorVars >>

\* csv_path = setup_csv(): makedirs, open, header row.  An OSError is not
\* caught by main() and ends the process.
MainSetupCsv ==
    /\ MainRuns
    /\ m_pc = "setup_csv"
    /\ \E ok \in BOOLEAN :
          IF ok
          THEN csv_file' = "open" /\ m_pc' = "start_consumer"
          ELSE csv_file' = csv_file /\ m_pc' = "aborted"
    /\ UNCHANGED << model, use_mock, sigVars, data_queue, consVars, producer,
                    readerVars, produced, after_fault, scorerVars, sinkVars, monitorVars >>

\* processing_thread.start()
MainStartConsumer ==
    /\ MainRuns
    /\ m_pc = "start_consumer"
    /\ cons_pc' = "loop"
    /\ m_pc' = "choose_source"
    /\ UNCHANGED << model, use_mock, sigVars, csv_file, data_queue, cons_data, handed, scored,
                    stored, cons_errors, producer, readerVars, produced,
                    after_fault, scorerVars, sinkVars, monitorVars >>

\* use_mock = os.environ.get('USE_MOCK_DATA', ...) == 'true'
MainChooseSource ==
    /\ MainRuns
    /\ m_pc = "choose_source"
    /\ \E env \in BOOLEAN :
          /\ use_mock' = IF env THEN "true" ELSE "false"
          /\ IF env
             THEN producer' = "mock" /\ m_pc' = "wait"
             ELSE producer' = producer /\ m_pc' = "connect"
    /\ UNCHANGED << model, sigVars, csv_file, data_queue, consVars,
                    readerVars, produced, after_fault, scorerVars, sinkVars, monitorVars >>

\* ArduinoConnector.connect(): serial.Serial(...), sleep(2), connected = True,
\* return True; on SerialException return False.
ConnectFails(ok) == ~ok

\* arduino.start() is in the else branch only: after a failed connect no
\* reader thread is created.
ReaderAfterFailedConnectStarted == "start"
ReaderAfterFailedConnect == "not_started"

\* if not arduino.connect(): start generate_mock_data; else: arduino.start()
MainConnect ==
    /\ MainRuns
    /\ m_pc = "connect"
    /\ \E ok \in BOOLEAN :
          IF ConnectFails(ok)
          THEN /\ producer' = "mock"
               /\ m_pc' = "wait"
               /\ rd_pc' = ReaderAfterFailedConnect
               /\ UNCHANGED << serial_conn, connected >>
          ELSE /\ serial_conn' = "open"
               /\ connected' = TRUE
               /\ producer' = "arduino"
               /\ rd_pc' = "start"
               /\ m_pc' = "wait"
    /\ UNCHANGED << stop_pc, model, use_mock, sigVars, csv_file, data_queue, consVars, rd_exc, rd_last,
                    running, rd_faulted, rd_frame, produced, after_fault,
                    scorerVars, sinkVars, monitorVars >>

----------------------------------------------------------------------------
\* main.py: signal_handler, run on the main thread when SIGINT/SIGTERM arrives.

\* stop_event.set()
SignalArrives ==
    /\ Alive
    /\ sig_pc = "none"
    /\ stop_event' = TRUE
    /\ at_stop' = produced
    /\ sig_pc' = "close_csv"
    /\ UNCHANGED << mainVars, proc_exited, csv_file, data_queue, consVars,
                    producer, readerVars, produced, after_fault, scorerVars, sinkVars, monitorVars >>

\* if csv_file and not csv_file.closed: csv_file.close()
SignalCloseCsv ==
    /\ Alive
    /\ sig_pc = "close_csv"
    /\ csv_file' = IF csv_file = "open" THEN "closed" ELSE csv_file
    /\ sig_pc' = "exit"
    /\ UNCHANGED << mainVars, proc_exited, stop_event, at_stop, data_queue,
                    consVars, producer, readerVars, produced, after_fault,
                    scorerVars, sinkVars, monitorVars >>

\* sys.exit(0): SystemExit unwinds main(); the daemon threads end with it.
SignalExit ==
    /\ Alive
    /\ sig_pc = "exit"
    /\ proc_exited' = TRUE
    /\ sig_pc' = "done"
    /\ UNCHANGED << mainVars, stop_event, at_stop, csv_file, data_queue,
                    consVars, producer, readerVars, produced, after_fault,
                    scorerVars, sinkVars, monitorVars >>

----------------------------------------------------------------------------
\* main.py: data_processing_loop, the consumer thread.

\* queue.Queue is FIFO: get() returns the oldest item.
QueueGetNewest(q) == [item |-> q[Len(q)], rest |-> SubSeq(q, 1, Len(q) - 1)]
QueueGet(q) == [item |-> Head(q), rest |-> Tail(q)]

\* data_queue.put(x)
QueuePut(q, x) == Append(q, x)

\* `except Exception` sits inside the while loop: after the print the loop
\* goes back to its condition.
OnConsumerErrorLeaveLoop == "done"
OnConsumerError == "loop"

\* while not stop_event.is_set():
ConsumerLoop ==
    /\ ~proc_exited
    /\ cons_pc = "loop"
    /\ cons_pc' = IF stop_event THEN "done" ELSE "get"
    /\ UNCHANGED << mainVars, sigVars, csv_file, data_queue, cons_data, handed,
                    scored, stored, cons_errors, producer, readerVars,
                    produced, after_fault, scorerVars, sinkVars, monitorVars >>

\* data = data_queue.get(timeout=1); on queue.Empty: continue
ConsumerGet ==
    /\ ~proc_exited
    /\ cons_pc = "get"
    /\ IF data_queue # << >>
       THEN /\ cons_data' = QueueGet(data_queue).item
            /\ data_queue' = QueueGet(data_queue).rest
            /\ cons_pc' = "score"
       ELSE /\ cons_pc' = "loop"
            /\ UNCHANGED << cons_data, data_queue >>
    /\ UNCHANGED << mainVars, sigVars, csv_file, handed, scored, stored,
                    cons_errors, producer, readerVars, produced, after_fault,
                    scorerVars, sinkVars, monitorVars >>

\* The except branch: print the error, next iteration.
ConsumerFails ==
    /\ cons_errors' = Append(cons_errors, cons_data)
    /\ cons_pc' = OnConsumerError

\* One statement of the try body (main.py:67-81) at a time.
ConsumerTry ==
    /\ ~proc_exited
    /\ cons_pc \in {"score", "file_check", "store", "flush", "print", "task_done"}
    /\ CASE cons_pc = "score" ->
              \* processed_data = process_sensor_data(data, model)
              /\ handed' = Append(handed, cons_data)
              /\ IF ProcessCallRaises
                 THEN ConsumerFails /\ UNCHANGED scored
                 ELSE /\ scored' = Append(scored, cons_data)
                      /\ cons_pc' = "file_check"
                      /\ UNCHANGED cons_errors
              /\ UNCHANGED << stored, csv_file >>
         [] cons_pc = "file_check" ->
              \* if csv_file and not csv_file.closed:
              /\ cons_pc' = IF csv_file = "open" THEN "store" ELSE "print"
              /\ UNCHANGED << handed, scored, stored, cons_errors, csv_file >>
         [] cons_pc = "store" ->
              \* store_data(processed_data, csv_file)
              /\ IF StoreCallRaises
                 THEN ConsumerFails /\ UNCHANGED stored
                 ELSE /\ stored' = Append(stored, cons_data)
                      /\ cons_pc' = "flush"
                      /\ UNCHANGED cons_errors
              /\ UNCHANGED << handed, scored, csv_file >>
         [] cons_pc = "flush" ->
              \* csv_file.flush(): ValueError on a closed file
              /\ IF csv_file # "open"
                 THEN ConsumerFails
                 ELSE cons_pc' = "print" /\ UNCHANGED cons_errors
              /\ UNCHANGED << handed, scored, stored, csv_file >>
         [] cons_pc = "print" ->
              \* if processed_data["prediction_label"] == 1: ...
              /\ IF PrintRaises
                 THEN ConsumerFails
                 ELSE cons_pc' = "task_done" /\ UNCHANGED cons_errors
              /\ UNCHANGED << handed, scored, stored, csv_file >>
         [] cons_pc = "task_done" ->
              \* data_queue.task_done()
              /\ cons_pc' = "loop"
              /\ UNCHANGED << handed, scored, stored, cons_errors, csv_file >>
    /\ UNCHANGED << mainVars, sigVars, data_queue, cons_data, producer,
                    readerVars, produced, after_fault, scorerVars, sinkVars, monitorVars >>

----------------------------------------------------------------------------
\* sensor_connector.py: the producers.

\* data_queue.put(sample): the next sample id goes on the queue.
PutSample ==
    /\ produced' = produced + 1
    /\ data_queue' = QueuePut(data_queue, produced + 1)
    /\ after_fault' = IF rd_faulted THEN after_fault \cup {produced + 1}
                      ELSE after_fault
    /\ rd_faulted' = FALSE

\* generate_mock_data: while True: build data, put, sleep(0.5)
MockPut ==
    /\ ~proc_exited
    /\ producer = "mock"
    /\ produced < MaxSamples
    /\ PutSample
    /\ UNCHANGED << stop_pc, mainVars, sigVars, csv_file, consVars, producer, rd_pc,
                    rd_exc, rd_last, running, connected, serial_conn, rd_frame,
                    scorerVars, sinkVars, monitorVars >>

\* What one pass over lines 49-50 finds on the port:
\*   "no_data"      in_waiting == 0
\*   "json_object"  a line holding a JSON object
\*   "bad_json"     a line json.loads rejects (JSONDecodeError)
\*   "bad_utf8"     bytes that are not UTF-8 (decode raises UnicodeDecodeError)
\*   "json_scalar"  valid JSON that is no object (item assignment: TypeError)
\*   "io_fault"     serial.SerialException from in_waiting or readline
FrameKinds ==
    {"no_data", "json_object", "bad_json", "bad_utf8", "json_scalar", "io_fault"}

MalformedFrames == {"bad_json", "bad_utf8", "json_scalar"}

\* connect() catches SerialException and returns False; read_data then
\* prints, sleeps 5 s and continues.
AfterConnectFailureUncaught == [pc |-> "crashed", exc |-> "SerialException"]
AfterConnectFailure == [pc |-> "backoff", exc |-> "none"]

\* except serial.SerialException: self.connected = False;
\* if self.serial_conn: self.serial_conn.close()
OnReadFaultStaysConnected == [connected |-> TRUE, serial_conn |-> "closed"]
OnReadFault == [connected |-> FALSE, serial_conn |-> "closed"]

\* self.running = True
ReaderStart ==
    /\ ~proc_exited
    /\ rd_pc = "start"
    /\ running' = TRUE
    /\ rd_pc' = "loop"
    /\ UNCHANGED << stop_pc, mainVars, sigVars, csv_file, data_queue, consVars, producer,
                    rd_exc, rd_last, connected, serial_conn, rd_faulted,
                    rd_frame, produced, after_fault, scorerVars, sinkVars, monitorVars >>

\* while self.running: if not self.connected: ...
ReaderLoop ==
    /\ ~proc_exited
    /\ rd_pc = "loop"
    /\ rd_pc' = IF ~running THEN "done"
                ELSE IF ~connected THEN "connect"
                ELSE "read"
    /\ UNCHANGED << stop_pc, mainVars, sigVars, csv_file, data_queue, consVars, producer,
                    rd_exc, rd_last, running, connected, serial_conn,
                    rd_faulted, rd_frame, produced, after_fault, scorerVars, sinkVars, monitorVars >>

\* self.connect(), first half: self.serial_conn = serial.Serial(...)
ReaderConnect ==
    /\ ~proc_exited
    /\ rd_pc = "connect"
    /\ \E ok \in BOOLEAN :
          IF ConnectFails(ok)
          THEN /\ rd_pc' = AfterConnectFailure.pc
               /\ rd_exc' = AfterConnectFailure.exc
               /\ rd_last' = "connect_failed"
               /\ rd_faulted' = TRUE
               /\ UNCHANGED serial_conn
          ELSE /\ serial_conn' = "open"
               /\ rd_pc' = "connect_wait"
               /\ UNCHANGED << rd_exc, rd_last, rd_faulted >>
    /\ UNCHANGED << stop_pc, mainVars, sigVars, csv_file, data_queue, consVars, producer,
                    running, connected, rd_frame, produced, after_fault,
                    scorerVars, sinkVars, monitorVars >>

\* self.connect(), second half: time.sleep(2); self.connected = True
ReaderConnected ==
    /\ ~proc_exited
    /\ rd_pc = "connect_wait"
    /\ connected' = TRUE
    /\ rd_last' = "connected"
    /\ rd_pc' = "read"
    /\ UNCHANGED << stop_pc, mainVars, sigVars, csv_file, data_queue, consVars, producer,
                    rd_exc, running, serial_conn, rd_faulted, rd_frame,
                    produced, after_fault, scorerVars, sinkVars, monitorVars >>

\* print("Waiting to reconnect to Arduino..."); time.sleep(5); continue
ReaderBackoff ==
    /\ ~proc_exited
    /\ rd_pc = "backoff"
    /\ rd_last' = "backoff"
    /\ rd_pc' = "loop"
    /\ UNCHANGED << stop_pc, mainVars, sigVars, csv_file, data_queue, consVars, producer,
                    rd_exc, running, connected, serial_conn, rd_faulted,
                    rd_frame, produced, after_fault, scorerVars, sinkVars, monitorVars >>

\* The try block of read_data (lines 48-68) on one frame.
ReaderRead ==
    /\ ~proc_exited
    /\ rd_pc = "read"
    /\ \E frame \in FrameKinds :
          /\ frame = "json_object" => produced < MaxSamples
          \* a closed port raises SerialException (PortNotOpenError)
          /\ serial_conn # "open" => frame = "io_fault"
          /\ rd_frame' = frame
          /\ CASE frame = "no_data" ->
                    /\ rd_pc' = "sleep"
                    /\ UNCHANGED << rd_exc, rd_last, connected, serial_conn,
                                    rd_faulted, data_queue, produced, after_fault >>
               [] frame = "json_object" ->
                    /\ PutSample
                    /\ rd_pc' = "sleep"
                    /\ UNCHANGED << rd_exc, rd_last, connected, serial_conn >>
               [] frame = "bad_json" ->
                    \* except json.JSONDecodeError: print
                    /\ rd_pc' = "sleep"
                    /\ UNCHANGED << rd_exc, rd_last, connected, serial_conn,
                                    rd_faulted, data_queue, produced, after_fault >>
               [] frame = "bad_utf8" ->
                    \* line 50, outside the inner try; not a SerialException
                    /\ rd_pc' = "crashed"
                    /\ rd_exc' = "UnicodeDecodeError"
                    /\ UNCHANGED << rd_last, connected, serial_conn,
                                    rd_faulted, data_queue, produced, after_fault >>
               [] frame = "json_scalar" ->
                    \* line 56: sensor_data["timestamp"] = ... on a non-dict
                    /\ rd_pc' = "crashed"
                    /\ rd_exc' = "TypeError"
                    /\ UNCHANGED << rd_last, connected, serial_conn,
                                    rd_faulted, data_queue, produced, after_fault >>
               [] frame = "io_fault" ->
                    \* except serial.SerialException: connected = False; close()
                    /\ connected' = OnReadFault.connected
                    /\ serial_conn' = OnReadFault.serial_conn
                    /\ rd_last' = "read_fault"
                    /\ rd_faulted' = TRUE
                    /\ rd_pc' = "sleep"
                    /\ UNCHANGED << rd_exc, data_queue, produced, after_fault >>
    /\ UNCHANGED << stop_pc, mainVars, sigVars, csv_file, consVars, producer, running,
                    scorerVars, sinkVars, monitorVars >>

\* time.sleep(0.1)
ReaderSleep ==
    /\ ~proc_exited
    /\ rd_pc = "sleep"
    /\ rd_pc' = "loop"
    /\ UNCHANGED << stop_pc, mainVars, sigVars, csv_file, data_queue, consVars, producer,
                    rd_exc, rd_last, running, connected, serial_conn,
                    rd_faulted, rd_frame, produced, after_fault, scorerVars, sinkVars, monitorVars >>

----------------------------------------------------------------------------
\* The running process.

Next ==
    \/ MainLoadModel
    \/ MainSetupCsv
    \/ MainStartConsumer
    \/ MainChooseSource
    \/ MainConnect
    \/ SignalArrives
    \/ SignalCloseCsv
    \/ SignalExit
    \/ ConsumerLoop
    \/ ConsumerGet
    \/ ConsumerTry
    \/ MockPut
    \/ ReaderStart
    \/ ReaderLoop
    \/ ReaderConnect
    \/ ReaderConnected
    \/ ReaderBackoff
    \/ ReaderRead
    \/ ReaderSleep

Spec == Init /\ [][Next]_vars

----------------------------------------------------------------------------
\* The scorer alone: one raw sample, one call.

InitScorer ==
    /\ PipelineInit
    /\ raw \in RawSamples
    /\ processed = NoRecord
    /\ SinkInit
    /\ MonitorIdle
    /\ csv = Missing

\* processed_data = process_sensor_data(data)
Score ==
    /\ processed = NoRecord
    /\ processed' = process_sensor_data(raw)
    /\ UNCHANGED << mainVars, sigVars, csv_file, data_queue, consVars, producer,
                    readerVars, produced, after_fault, raw, sinkVars,
                    monitorVars >>

NextScorer == Score

SpecScorer == InitScorer /\ [][NextScorer]_vars

----------------------------------------------------------------------------
\* Properties of the pipeline (Spec).

\* The consumer thread has ended: its loop returned, or the process exited.
ConsumerEnded == proc_exited \/ cons_pc = "done"

\* C1: no sample is lost.  Once the consumer has ended, every sample that was
\* put on data_queue before the stop signal was set -- those still queued at
\* that moment included -- has been dequeued and handed to the scorer, scored
\* and passed to the sink.
C1_NoSampleLost ==
    ConsumerEnded =>
        \A s \in 1..at_stop :
            s \in Range(handed) /\ s \in Range(scored) /\ s \in Range(stored)

C3_ScoredAndStoredOnce ==
    cons_pc \in {"loop", "get", "done"} =>
        /\ scored = handed
        /\ stored = handed
        /\ InOrder(handed)

\* C4: a failure while processing one sample never ends the consumer loop.
\* The step that logs the failure leads back to the loop condition, and the
\* loop is left only with the stop signal set.
C4_FailureKeepsLoopRunning ==
    [][ /\ cons_errors' # cons_errors => cons_pc' = "loop"
        /\ (cons_pc # "done" /\ cons_pc' = "done") => stop_event ]_vars

\* C4 witness: after a logged failure the loop has dequeued the next sample,
\* with the stop signal not set.
C4_Witness ==
    /\ ~stop_event
    /\ cons_pc = "score"
    /\ cons_errors # << >>
    /\ cons_data \notin Range(cons_errors)

\* C5: once the stop signal is set, no producer puts another sample on
\* data_queue.
C5_NoAdmissionAfterStop ==
    [][ stop_event => produced' = produced ]_vars

\* C6: once the stop signal is set, the consumer loop and the reader loop each
\* terminate the next time they evaluate their loop condition.
C6_StopObservedWithinOnePoll ==
    [][ stop_event =>
          /\ (cons_pc = "loop" /\ cons_pc' # "loop") => cons_pc' = "done"
          /\ (rd_pc = "loop" /\ rd_pc' # "loop") => rd_pc' = "done" ]_vars

\* C7: after a read failure on a live connection the reader is never about to
\* call connect() without a backoff since that failure.
C7_BackoffBeforeReconnect ==
    rd_pc = "connect" => rd_last # "read_fault"

\* C8: a failed connect is never fatal to the reader.  No SerialException ends
\* the reader thread; a failed connect() is followed by the backoff sleep, and
\* the backoff sleep by the loop condition of a running, disconnected reader,
\* that is by another connect().
C8_ConnectFailureNotFatal ==
    /\ rd_exc # "SerialException"
    /\ rd_last = "connect_failed" => rd_pc = "backoff"
    /\ rd_last = "backoff" =>
          /\ running /\ ~connected
          /\ rd_pc \in {"loop", "connect", "connect_wait"}

\* C8 witness: the reader is about to call connect() again after a backoff.
C8_Witness ==
    rd_pc = "connect" /\ rd_last = "backoff"

\* C9: a malformed frame read on a live connection is skipped: the step that
\* reads it puts nothing on data_queue, leaves the connection open and leads
\* to the sleep before the next read.
C9_MalformedFrameSkipped ==
    [][ (rd_pc = "read" /\ rd_pc' # "read" /\ rd_frame' \in MalformedFrames) =>
          /\ produced' = produced
          /\ data_queue' = data_queue
          /\ connected' /\ serial_conn' = "open"
          /\ rd_pc' = "sleep" ]_vars

----------------------------------------------------------------------------
\* Properties of the scorer (SpecScorer).

\* The rule categories a raw sample matches, read off the sample directly.
Categories == {"temperature", "vibration", "pressure", "rpm"}

Matched(data) ==
    { c \in Categories :
        \/ c = "temperature" /\ Get(data, "temperature") > 90
        \/ c = "vibration" /\ Get(data, "vibration") > 50
        \/ c = "pressure" /\ (Get(data, "pressure") < 8 \/ Get(data, "pressure") > 12)
        \/ c = "rpm" /\ (Get(data, "rpm") < 1000 \/ Get(data, "rpm") > 3000) }

WeightSum(M) ==
    (IF "temperature" \in M THEN 30 ELSE 0)
    + (IF "vibration" \in M THEN 40 ELSE 0)
    + (IF "pressure" \in M THEN 20 ELSE 0)
    + (IF "rpm" \in M THEN 10 ELSE 0)

HasProbability(record) == "failure_probability" \in DOMAIN record

\* C10: a failure_probability that is present equals the sum of the weights
\* of the matched rule categories (0.3, 0.4, 0.2, 0.1) capped at 0.95; it is
\* at most 0.95, and no sample matching a subset of the categories gets a
\* higher one.
C10_ProbabilityIsCappedSum ==
    HasProbability(processed) =>
        /\ processed.failure_probability = Min(WeightSum(Matched(raw)), 95)
        /\ processed.failure_probability <= 95
        /\ \A other \in FullSamples :
              (Matched(other) \subseteq Matched(raw)
                 /\ HasProbability(process_sensor_data(other)))
              => process_sensor_data(other).failure_probability
                    <= processed.failure_probability

\* C10 witness: all four categories match; the sum 1.0 is capped to 0.95.
C10_Witness ==
    /\ HasProbability(processed)
    /\ Matched(raw) = Categories
    /\ processed.failure_probability = 95


\* The failure type of the first category, in the order temperature,
\* vibration, pressure, rpm, among the matched ones.
FirstMatchType(M) ==
    IF "temperature" \in M THEN "Overheating"
    ELSE IF "vibration" \in M THEN "Bearing Failure"
    ELSE IF "pressure" \in M THEN "Pressure Issue"
    ELSE IF "rpm" \in M THEN "Motor Issue"
    ELSE "Unknown"

HasType(record) == "failure_type" \in DOMAIN record

\* C11: failure_type is the type of the first matching rule in the order
\* temperature, vibration, pressure, rpm, whatever later rules match, and it
\* is "Unknown" exactly when an anomaly is detected and no rule matches.
C11_TypeIsFirstMatch ==
    HasType(processed) =>
        /\ processed.failure_type = FirstMatchType(Matched(raw))
        /\ processed.failure_type = "Unknown" <=> Matched(raw) = {}

\* C11 witness: a later rule matches as well and the first one keeps the type.
C11_Witness ==
    /\ HasType(processed)
    /\ {"vibration", "rpm"} \subseteq Matched(raw)
    /\ "temperature" \notin Matched(raw)
    /\ processed.failure_type = "Bearing Failure"

\* The scorer has returned a record.
Scored == processed # NoRecord

\* C12: each per-field anomaly flag is true exactly when the value read for
\* the field lies outside [50,90], [0.1,5.0], [0.8,1.2], [1000,3000] (both
\* bounds normal), and anomaly_detected is the OR of the four flags.
C12_FlagsMatchRanges ==
    Scored =>
        LET t == Get(raw, "temperature")
            v == Get(raw, "vibration")
            p == Get(raw, "pressure")
            r == Get(raw, "rpm")
        IN  /\ processed.temp_anomaly <=> ~(50 <= t /\ t <= 90)
            /\ processed.vibration_anomaly <=> ~(1 <= v /\ v <= 50)
            /\ processed.pressure_anomaly <=> ~(8 <= p /\ p <= 12)
            /\ processed.rpm_anomaly <=> ~(1000 <= r /\ r <= 3000)
            /\ processed.anomaly_detected <=>
                  \/ processed.temp_anomaly
                  \/ processed.vibration_anomaly
                  \/ processed.pressure_anomaly
                  \/ processed.rpm_anomaly

\* C12 witness: one field sits on a bound and is normal, another is just past
\* its bound and is the only anomaly.
C12_Witness ==
    /\ Scored
    /\ DOMAIN raw = FieldNames
    /\ raw.temperature = 90 /\ ~processed.temp_anomaly
    /\ raw.vibration = 51 /\ processed.vibration_anomaly
    /\ ~processed.pressure_anomaly /\ ~processed.rpm_anomaly
    /\ processed.anomaly_detected

\* C13: the failure fields are present exactly when an anomaly is detected:
\* both with anomaly_detected true, neither with anomaly_detected false.
C13_FailureFieldsIffAnomaly ==
    Scored =>
        /\ HasProbability(processed) <=> processed.anomaly_detected
        /\ HasType(processed) <=> processed.anomaly_detected

\* C13 witness: a sample with every field in range yields a record without
\* failure fields.
C13_Witness ==
    /\ Scored
    /\ ~processed.anomaly_detected
    /\ ~HasProbability(processed) /\ ~HasType(processed)


----------------------------------------------------------------------------
\* Further properties of the pipeline (Spec).

\* The consumer is between two samples.
ConsumerBetweenSamples == cons_pc \in {"loop", "get", "done"}

\* C16: a classifier failure does not propagate into the pipeline.  Every
\* sample the consumer has handed to the scorer together with the loaded model
\* is persisted by the sink, and none ends in the loop's except branch.
C16_RecordPersistedDespiteClassifier ==
    (model = "loaded" /\ ConsumerBetweenSamples) =>
        /\ Range(handed) \subseteq Range(stored)
        /\ cons_errors = << >>

\* C18: data_queue has a fixed capacity below the number of samples of a run:
\* it never holds all MaxSamples samples at once.
C18_QueueBounded ==
    Len(data_queue) < MaxSamples

\* C19: when the classifier artifact cannot be loaded, main() has returned
\* with no consumer and no producer thread started, no output file opened and
\* no sample queued or persisted.
C19_FatalConfigAborts ==
    model = "failed" =>
        /\ m_pc = "returned"
        /\ cons_pc = "not_started"
        /\ producer = "none" /\ rd_pc = "not_started"
        /\ csv_file = "none"
        /\ produced = 0 /\ data_queue = << >>
        /\ handed = << >> /\ stored = << >>

\* C19 witness: load_model raised and main() returned.
C19_Witness ==
    model = "failed" /\ m_pc = "returned"

\* C20: on an I/O fault during a read the reader has closed its handle and is
\* disconnected, its next action on the port is a connect attempt, and it
\* never reads from a handle that is not open.
C20_ReadFaultDisconnects ==
    /\ rd_pc = "read" => (connected /\ serial_conn = "open")
    /\ rd_last = "read_fault" =>
          /\ ~connected
          /\ rd_pc \in {"sleep", "loop", "connect", "connect_wait"}
          /\ rd_pc \in {"sleep", "loop", "connect"} => serial_conn = "closed"

\* C20 witness: after a read fault the reader is about to call connect().
C20_Witness ==
    /\ rd_last = "read_fault"
    /\ rd_pc = "connect"
    /\ ~connected /\ serial_conn = "closed"


----------------------------------------------------------------------------
\* sensor_data.py: store_data, the sink, called with scored records.

\* The write of one call that raises, if any: the append to the sensor-data
\* CSV, the append to the alerts CSV, open(alert_json, 'w'), or json.dump
\* into the file just truncated.
FailPoints == {"none", "csv", "alerts", "json_open", "json_dump"}

\* if processed_data.get('anomaly_detected', False):
IsAlertAlways(rec) == TRUE
IsAlert(rec) == rec.anomaly_detected

\* The files after store_data(rec) and its return value.  Every write is in
\* one try block: the first that raises ends the call with False and leaves
\* the writes before it in place.
store_data(rec, fail) ==
    LET m == rec.machine_id
        appended == [sensor_file EXCEPT ![m] = Append(@, rec)]
        alerted == [alerts_file EXCEPT ![m] = Append(@, rec)]
    IN  IF fail = "csv"
        THEN [sensor |-> sensor_file, alerts |-> alerts_file,
              latest |-> latest_alert, ok |-> FALSE]
        ELSE IF ~IsAlert(rec)
        THEN [sensor |-> appended, alerts |-> alerts_file,
              latest |-> latest_alert, ok |-> TRUE]
        ELSE IF fail = "alerts"
        THEN [sensor |-> appended, alerts |-> alerts_file,
              latest |-> latest_alert, ok |-> FALSE]
        ELSE IF fail = "json_open"
        THEN [sensor |-> appended, alerts |-> alerted,
              latest |-> latest_alert, ok |-> FALSE]
        ELSE IF fail = "json_dump"
        THEN [sensor |-> appended, alerts |-> alerted,
              latest |-> [latest_alert EXCEPT ![m] = PartialFile], ok |-> FALSE]
        ELSE [sensor |-> appended, alerts |-> alerted,
              latest |-> [latest_alert EXCEPT ![m] = rec], ok |-> TRUE]

\* One call of store_data with the next scored record.
StoreData ==
    /\ Len(sink_calls) < MaxCalls
    /\ \E machine \in Machines, anomaly \in BOOLEAN, fail \in FailPoints :
          LET rec == [id |-> Len(sink_calls) + 1,
                      machine_id |-> machine,
                      anomaly_detected |-> anomaly]
              out == store_data(rec, fail)
          IN  /\ sensor_file' = out.sensor
              /\ alerts_file' = out.alerts
              /\ latest_alert' = out.latest
              /\ sink_calls' = Append(sink_calls, [rec |-> rec, ok |-> out.ok])
    /\ UNCHANGED << mainVars, sigVars, csv_file, data_queue, consVars, producer,
                    readerVars, produced, after_fault, scorerVars,
                    monitorVars >>

NextSink == StoreData

SpecSink == Init /\ [][NextSink]_vars

----------------------------------------------------------------------------
\* Properties of the sink (SpecSink).

\* The records of the calls so far, all or only those of calls that returned
\* True, for one machine, in call order.
CallRecords(m, onlyOk) ==
    LET pick(c) == c.rec.machine_id = m /\ (onlyOk => c.ok)
        F[i \in 0..Len(sink_calls)] ==
            IF i = 0 THEN << >>
            ELSE IF pick(sink_calls[i]) THEN Append(F[i - 1], sink_calls[i].rec)
            ELSE F[i - 1]
    IN  F[Len(sink_calls)]

Anomalous(recs) == SelectSeq(recs, LAMBDA r : r.anomaly_detected)

LastOr(recs, default) == IF recs = << >> THEN default ELSE recs[Len(recs)]

\* The call that was given the most recent anomalous record of machine m.
LastAnomalousCall(m) ==
    LET idx == { i \in 1..Len(sink_calls) :
                   /\ sink_calls[i].rec.machine_id = m
                   /\ sink_calls[i].rec.anomaly_detected }
    IN  IF idx = {} THEN [ok |-> FALSE]
        ELSE sink_calls[CHOOSE i \in idx : \A j \in idx : j <= i]

----------------------------------------------------------------------------
\* ml_model_monitor.py: ModelMonitor.

Abs(x) == IF x < 0 THEN 0 - x ELSE x

\* _get_file_hash: the MD5 digest of the file's bytes, None when the file
\* cannot be opened.  Different contents have different digests.
GetFileHash(content) ==
    IF content = Missing THEN None ELSE [md5 |-> content]

\* if changes.get('rows_changed', 0) > 1000:
AlertThreshold == 1000

\* _backup_current_csv at second ts: pd.read_csv, then to_csv to
\* <basename>.<YYYYmmdd_HHMMSS>; a file of the same second is overwritten.
\* Any exception (no file, unparsable file, failed write) leaves backup_dir as
\* it is.
BackupCurrentCsv(dir, content, ts, write_ok) ==
    IF content \in Tables /\ write_ok
    THEN [t \in DOMAIN dir \cup {ts} |-> IF t = ts THEN content ELSE dir[t]]
    ELSE dir

\* sorted(...)[-2], for len(backups) >= 2: file names sort by timestamp.
PreviousBackup(dir) ==
    LET newest == CHOOSE t \in DOMAIN dir : \A u \in DOMAIN dir : u <= t
        older == DOMAIN dir \ {newest}
    IN  CHOOSE t \in older : \A u \in older : u <= t

\* _compare_csv_changes: the current file against a backup; None when either
\* read fails.
CompareCsvChanges(content, previous) ==
    IF content \in Tables /\ previous \in Tables
    THEN [current_rows |-> content.rows,
          previous_rows |-> previous.rows,
          rows_changed |-> Abs(content.rows - previous.rows)]
    ELSE None

\* if current_hash and current_hash != self.last_hash:
ChangeDetectedAtEveryCheck(current_hash, last) == current_hash # None
ChangeDetected(current_hash, last) == current_hash # None /\ current_hash # last

InitMonitor ==
    /\ PipelineInit
    /\ raw = NoSample
    /\ processed = NoRecord
    /\ SinkInit
    /\ MonitorIdle
    /\ csv \in Contents

\* ModelMonitor.__init__: last_hash = _get_file_hash(); _backup_current_csv()
MonitorConstruct ==
    /\ mon_pc = "new"
    /\ last_hash' = GetFileHash(csv)
    /\ \E write_ok \in BOOLEAN :
          /\ backups' = BackupCurrentCsv(backups, csv, now, write_ok)
          /\ last_snapshot' = IF csv \in Tables /\ write_ok THEN csv
                              ELSE last_snapshot
    /\ file_at_last' = csv
    /\ mon_pc' = "check"
    /\ UNCHANGED << mainVars, sigVars, csv_file, data_queue, consVars, producer,
                    readerVars, produced, after_fault, scorerVars, sinkVars,
                    now, csv, reports, alerts, modified, checks >>

\* check_for_changes, called by run_monitor_loop.
MonitorCheck ==
    /\ mon_pc = "check"
    /\ \E write_ok \in BOOLEAN :
          LET current_hash == GetFileHash(csv)
              detected == ChangeDetected(current_hash, last_hash)
              dir == IF detected
                     THEN BackupCurrentCsv(backups, csv, now, write_ok)
                     ELSE backups
              changes == IF detected /\ Cardinality(DOMAIN dir) >= 2
                         THEN CompareCsvChanges(csv, dir[PreviousBackup(dir)])
                         ELSE None
          IN  /\ backups' = dir
              /\ reports' = IF changes # None THEN Append(reports, changes)
                            ELSE reports
              /\ alerts' = IF changes # None /\ changes.rows_changed > AlertThreshold
                           THEN Append(alerts, changes.rows_changed)
                           ELSE alerts
              /\ last_hash' = IF detected THEN current_hash ELSE last_hash
              /\ last_snapshot' = IF detected /\ csv \in Tables /\ write_ok
                                  THEN csv ELSE last_snapshot
    /\ file_at_last' = csv
    /\ checks' = checks + 1
    /\ mon_pc' = "sleep"
    /\ UNCHANGED << mainVars, sigVars, csv_file, data_queue, consVars, producer,
                    readerVars, produced, after_fault, scorerVars, sinkVars,
                    now, csv, modified >>

\* time.sleep(self.check_interval): at least a second.
MonitorSleep ==
    /\ mon_pc = "sleep"
    /\ now < MaxTime
    /\ now' = now + 1
    /\ mon_pc' = "check"
    /\ UNCHANGED << mainVars, sigVars, csv_file, data_queue, consVars, producer,
                    readerVars, produced, after_fault, scorerVars, sinkVars,
                    csv, last_hash, backups, reports, alerts, last_snapshot,
                    file_at_last, modified, checks >>

\* Time passing before check_for_changes starts.
Tick ==
    /\ mon_pc = "check"
    /\ now < MaxTime
    /\ now' = now + 1
    /\ UNCHANGED << mainVars, sigVars, csv_file, data_queue, consVars, producer,
                    readerVars, produced, after_fault, scorerVars, sinkVars,
                    mon_pc, csv, last_hash, backups, reports, alerts,
                    last_snapshot, file_at_last, modified, checks >>

\* Another process rewrites, truncates or removes the monitored file.
FileWrite ==
    /\ mon_pc # "new"
    /\ csv' \in Contents \ {csv}
    /\ modified' = TRUE
    /\ UNCHANGED << mainVars, sigVars, csv_file, data_queue, consVars, producer,
                    readerVars, produced, after_fault, scorerVars, sinkVars,
                    mon_pc, now, last_hash, backups, reports, alerts,
                    last_snapshot, file_at_last, checks >>

NextMonitor ==
    \/ MonitorConstruct
    \/ MonitorCheck
    \/ MonitorSleep
    \/ Tick
    \/ FileWrite

SpecMonitor == InitMonitor /\ [][NextMonitor]_vars

----------------------------------------------------------------------------
\* Properties of the monitor (SpecMonitor).

\* The step is one call of check_for_changes.
IsCheck == mon_pc = "check" /\ mon_pc' = "sleep"

\* The check finds a hash different from last_hash.
Detects == GetFileHash(csv) # None /\ GetFileHash(csv) # last_hash

\* The file's row count differs by more than 1000 from the newest snapshot
\* written before this check.
BigChange ==
    /\ csv \in Tables
    /\ last_snapshot \in Tables
    /\ Abs(csv.rows - last_snapshot.rows) > 1000

\* C14: every detected change whose row count differs by more than 1000 from
\* the preceding snapshot raises the alert once, at the check that detects
\* it, and a check of a file unmodified since the previous check raises none.
C14_AlertOncePerChange ==
    [][ IsCheck =>
          /\ (Detects /\ BigChange) => Len(alerts') = Len(alerts) + 1
          /\ csv = file_at_last => alerts' = alerts ]_vars

\* C15: a check of a file that was not modified since the previous check, or
\* since construction, creates no snapshot, hands no ChangeReport to
\* _save_metrics, raises no alert and leaves last_hash as it is; as long as
\* the file was never modified, backup_dir holds nothing but the start-up
\* snapshot and no report or alert exists.
C15_UnmodifiedCheckIsIdle ==
    /\ [][ (IsCheck /\ csv = file_at_last) =>
              /\ backups' = backups
              /\ reports' = reports
              /\ alerts' = alerts
              /\ last_hash' = last_hash ]_vars
    /\ [](~modified =>
              /\ Cardinality(DOMAIN backups)
                    = IF last_snapshot = NoSnapshot THEN 0 ELSE 1
              /\ reports = << >>
              /\ alerts = << >>)

\* C15 witness: two checks ran against a file never modified since
\* construction; backup_dir holds the one start-up snapshot and no report
\* was written.
C15_Witness ==
    /\ checks >= 2
    /\ ~modified
    /\ Cardinality(DOMAIN backups) = 1
    /\ last_hash = GetFileHash(csv)
    /\ reports = << >>


\* The ChangeReport of the file against the newest snapshot written before
\* this check.
ReportAgainstLastSnapshot ==
    [current_rows |-> csv.rows,
     previous_rows |-> last_snapshot.rows,
     rows_changed |-> Abs(csv.rows - last_snapshot.rows)]

\* C21: a check that detects a change of a readable file, with a preceding
\* snapshot in place, hands to _save_metrics one ChangeReport that compares
\* the file with that preceding snapshot: rows_changed is the row-count
\* difference of these two consecutive states, whether or not the new
\* snapshot could be written and whatever second it falls in.
C21_ReportAgainstPrecedingSnapshot ==
    [][ (IsCheck /\ Detects /\ csv \in Tables /\ last_snapshot \in Tables) =>
          reports' = Append(reports, ReportAgainstLastSnapshot) ]_vars


----------------------------------------------------------------------------
\* Properties of the producers (Spec).

\* The generate_mock_data thread was started.
MockStarted == producer = "mock"

\* The ArduinoConnector reader thread was started (arduino.start()).
ReaderStarted == rd_pc # "not_started"

\* C23: main never starts both producers; once main has passed the source
\* selection exactly one of them was started; and when USE_MOCK_DATA is off
\* and the initial connect failed, it is the mock generator that runs, and
\* no reader thread exists then or later.  Before any producer is started
\* nothing is put on the queue.
C23_ExactlyOneProducer ==
    /\ ~(MockStarted /\ ReaderStarted)
    /\ m_pc = "wait" => (MockStarted \/ ReaderStarted)
    /\ ReaderStarted <=> producer = "arduino"
    /\ (use_mock = "false" /\ m_pc = "wait" /\ serial_conn = "none") =>
          (MockStarted /\ ~ReaderStarted /\ ~running)
    /\ producer = "none" => produced = 0

\* C23 witness: the initial connect failed, the mock generator took over and
\* has put a sample on the queue.
C23_Witness ==
    /\ use_mock = "false"
    /\ serial_conn = "none"
    /\ MockStarted
    /\ ~ReaderStarted
    /\ produced >= 1


----------------------------------------------------------------------------
\* sensor_connector.py: ArduinoConnector on its own, driven by a caller that
\* starts it and later stops it (main.py connects first; the module's test
\* code starts it unconnected).

\* [main.py] arduino.connect() returned True; arduino.start()
\* [sensor_connector.py __main__] arduino.start()
ConnectorStart ==
    /\ rd_pc = "not_started"
    /\ \E connect_first \in BOOLEAN :
          IF connect_first
          THEN serial_conn' = "open" /\ connected' = TRUE
          ELSE UNCHANGED << serial_conn, connected >>
    /\ rd_pc' = "start"
    /\ UNCHANGED << mainVars, sigVars, csv_file, data_queue, consVars, producer,
                    rd_exc, rd_last, running, rd_faulted, rd_frame, stop_pc,
                    produced, after_fault, scorerVars, sinkVars, monitorVars >>

\* stop(): self.running = False
StopClearRunning ==
    /\ stop_pc = "none"
    /\ rd_pc # "not_started"
    /\ running' = FALSE
    /\ stop_pc' = "join"
    /\ UNCHANGED << mainVars, sigVars, csv_file, data_queue, consVars, producer,
                    rd_pc, rd_exc, rd_last, connected, serial_conn, rd_faulted,
                    rd_frame, produced, after_fault, scorerVars, sinkVars,
                    monitorVars >>

\* if self.thread: self.thread.join(timeout=1): returns when the thread has
\* ended or when the second is over, whichever comes first.
StopJoin ==
    /\ stop_pc = "join"
    /\ stop_pc' = "close"
    /\ UNCHANGED << mainVars, sigVars, csv_file, data_queue, consVars, producer,
                    rd_pc, rd_exc, rd_last, running, connected, serial_conn,
                    rd_faulted, rd_frame, produced, after_fault, scorerVars,
                    sinkVars, monitorVars >>

\* if self.serial_conn: self.serial_conn.close()
StopClose ==
    /\ stop_pc = "close"
    /\ IF serial_conn # "none"
       THEN serial_conn' = "closed" /\ stop_pc' = "disconnect"
       ELSE serial_conn' = serial_conn /\ stop_pc' = "done"
    /\ UNCHANGED << mainVars, sigVars, csv_file, data_queue, consVars, producer,
                    rd_pc, rd_exc, rd_last, running, connected, rd_faulted,
                    rd_frame, produced, after_fault, scorerVars, sinkVars,
                    monitorVars >>

\* self.connected = False (inside the same if)
StopDisconnect ==
    /\ stop_pc = "disconnect"
    /\ connected' = FALSE
    /\ stop_pc' = "done"
    /\ UNCHANGED << mainVars, sigVars, csv_file, data_queue, consVars, producer,
                    rd_pc, rd_exc, rd_last, running, serial_conn, rd_faulted,
                    rd_frame, produced, after_fault, scorerVars, sinkVars,
                    monitorVars >>

\* The next statement of the reader thread.
ReaderStep ==
    \/ ReaderStart
    \/ ReaderLoop
    \/ ReaderConnect
    \/ ReaderConnected
    \/ ReaderBackoff
    \/ ReaderRead
    \/ ReaderSleep

\* The rest of stop() once it was called.
StopStep ==
    \/ StopJoin
    \/ StopClose
    \/ StopDisconnect

NextConnector ==
    \/ ConnectorStart
    \/ StopClearRunning
    \/ StopStep
    \/ ReaderStep

\* Both threads are scheduled: a thread that can take its next statement
\* takes it.  Whether and when the caller calls start() and stop() is free.
SpecConnector ==
    /\ Init
    /\ [][NextConnector]_vars
    /\ WF_vars(ReaderStep)
    /\ WF_vars(StopStep)

----------------------------------------------------------------------------
\* Properties of ArduinoConnector.stop() (SpecConnector).

\* The reader thread has left read_data.
ReaderEnded == rd_pc \in {"done", "crashed"}

\* C24: once stop() has been called after start(), the reader thread
\* eventually leaves its read loop, in every interleaving; and when the
\* thread has left the loop and stop() has returned, connected is false and
\* the serial handle is not open.
C24_StopEndsReader ==
    /\ (stop_pc # "none") ~> ReaderEnded
    /\ []((rd_pc = "done" /\ stop_pc = "done") =>
              (~connected /\ serial_conn # "open"))

====
